---- MODULE Spec2Model ----
\* A model of the fluent request builder RequestHandler
\* (src/utils/request-handler.ts) and of the fixture that hands one instance
\* to each test (src/unnamed/part_002).
\*
\* A JavaScript string is a sequence of one-character strings, so that
\* URL parsing and percent-encoding are computed character by character.
\* A JavaScript object literal is the sequence of its entries in insertion
\* order, each entry a record [key, value]; a value is a record
\* [isNum, n, s] holding either the number n or the string s.
EXTENDS Integers, Sequences, FiniteSets, TLC

\* ------------------------------------------------------------------ bounds

\* How many RequestHandler instances the fixture constructs in one run.
MaxInstances == 2

\* How many tests of the shape of 'Delete Articles' the hooks file holds.
FileTests == 2

\* How many times the runner runs a failed test again.
MaxRetries == 1

\* ------------------------------------------------------------- characters

Lower == {"a","b","c","d","e","f","g","h","i","j","k","l","m",
          "n","o","p","q","r","s","t","u","v","w","x","y","z"}

Upper == {"A","B","C","D","E","F","G","H","I","J","K","L","M",
          "N","O","P","Q","R","S","T","U","V","W","X","Y","Z"}

Digit == {"0","1","2","3","4","5","6","7","8","9"}

DigitChars == <<"0","1","2","3","4","5","6","7","8","9">>

\* Number-to-string conversion of a non-negative integer, as JavaScript
\* does when a number is passed where a string is expected.
RECURSIVE NumberToString(_)
NumberToString(n) ==
    IF n < 10 THEN <<DigitChars[n + 1]>>
    ELSE NumberToString(n \div 10) \o <<DigitChars[(n % 10) + 1]>>

Str(isNum, n, s) == [isNum |-> isNum, n |-> n, s |-> s]

NumV(n) == Str(TRUE, n, <<>>)

StrV(s) == Str(FALSE, 0, s)

\* A conversion that keeps strings and turns every number into "NaN".
ToUSVString_NaN(v) == IF v.isNum THEN <<"N", "a", "N">> ELSE v.s

\* The string a value becomes when URLSearchParams.append receives it.
ToUSVString(v) == IF v.isNum THEN NumberToString(v.n) ELSE v.s

Entry(k, v) == [key |-> k, value |-> v]

\* ------------------------------------------------------- the host's URL

\* The schemes the URL standard calls special (file left out: the model's
\* inputs hold no file URLs).
SpecialSchemes ==
    { <<"h","t","t","p">>, <<"h","t","t","p","s">>, <<"f","t","p">>,
      <<"w","s">>, <<"w","s","s">> }

IsSchemeChar(c) == c \in Lower \cup Upper \cup Digit \cup {"+", "-", "."}

\* Position of the ":" that ends a scheme (an ASCII letter followed by
\* scheme characters), or 0 when the input has no scheme.
SchemeEnd(s) ==
    LET ends == { i \in 2..Len(s) :
                    /\ s[i] = ":"
                    /\ s[1] \in Lower \cup Upper
                    /\ \A j \in 2..(i - 1) : IsSchemeChar(s[j]) }
    IN  IF ends = {} THEN 0 ELSE CHOOSE i \in ends : \A j \in ends : i <= j

\* The input with its leading slashes removed (the parser's "special
\* authority ignore slashes" state).
RECURSIVE DropSlashes(_)
DropSlashes(s) ==
    IF s # <<>> /\ Head(s) = "/" THEN DropSlashes(Tail(s)) ELSE s

\* Length of the prefix of s that precedes its first "/".
RECURSIVE HostLen(_)
HostLen(s) ==
    IF s = <<>> \/ Head(s) = "/" THEN 0 ELSE 1 + HostLen(Tail(s))

IsHostChar(c) == c \in Lower \cup Upper \cup Digit \cup {"-", "."}

UpperChars == <<"A","B","C","D","E","F","G","H","I","J","K","L","M",
                "N","O","P","Q","R","S","T","U","V","W","X","Y","Z">>

LowerChars == <<"a","b","c","d","e","f","g","h","i","j","k","l","m",
                "n","o","p","q","r","s","t","u","v","w","x","y","z">>

\* ASCII lowercase of a string (the parser lowercases scheme and host).
AsciiLower(s) ==
    [i \in 1..Len(s) |->
        IF s[i] \in Upper
        THEN LowerChars[CHOOSE k \in 1..26 : UpperChars[k] = s[i]]
        ELSE s[i]]

Failure == [ok |-> FALSE, scheme |-> <<>>, host |-> <<>>, path |-> <<>>]

\* new URL(input) without a base URL, for inputs free of white space, user
\* info, port, query, fragment, dot segments and characters the path state
\* percent-encodes: failure when the input has no scheme or, under a
\* special scheme, no valid host; an empty path of a special URL is "/".
\* Under any other scheme the rest of the input is kept as it stands.
ParseURL(input) ==
    LET e == SchemeEnd(input) IN
    IF e = 0 THEN Failure
    ELSE
      LET scheme == AsciiLower(SubSeq(input, 1, e - 1))
          rest   == SubSeq(input, e + 1, Len(input))
      IN  IF scheme \in SpecialSchemes
          THEN LET r    == DropSlashes(rest)
                   n    == HostLen(r)
                   host == AsciiLower(SubSeq(r, 1, n))
                   p    == SubSeq(r, n + 1, Len(r))
               IN  IF host = <<>> \/ \E i \in 1..n : ~IsHostChar(host[i])
                   THEN Failure
                   ELSE [ok |-> TRUE, scheme |-> scheme, host |-> host,
                         path |-> IF p = <<>> THEN <<"/">> ELSE p]
          ELSE [ok |-> TRUE, scheme |-> scheme, host |-> <<>>, path |-> rest]

\* The UTF-8 bytes, in hexadecimal, of the characters the model uses that
\* the application/x-www-form-urlencoded serializer percent-encodes.
Utf8Hex(c) ==
    CASE c = "&" -> << <<"2","6">> >>
      [] c = "=" -> << <<"3","D">> >>
      [] c = "/" -> << <<"2","F">> >>
      [] c = ":" -> << <<"3","A">> >>
      [] c = "+" -> << <<"2","B">> >>
      [] c = "%" -> << <<"2","5">> >>
      [] c = "?" -> << <<"3","F">> >>
      [] c = "é" -> << <<"C","3">>, <<"A","9">> >>

RECURSIVE PercentBytes(_)
PercentBytes(bytes) ==
    IF bytes = <<>> THEN <<>>
    ELSE <<"%">> \o Head(bytes) \o PercentBytes(Tail(bytes))

\* A serializer that escapes the space and leaves every other character.
FormEncodeChar_RawReserved(c) == IF c = " " THEN <<"+">> ELSE <<c>>

\* One character under the application/x-www-form-urlencoded serializer:
\* a space becomes "+", ASCII letters, digits and * - . _ stay, every other
\* character becomes the percent-encoding of its UTF-8 bytes.
FormEncodeChar(c) ==
    IF c = " " THEN <<"+">>
    ELSE IF c \in Lower \cup Upper \cup Digit \cup {"*", "-", ".", "_"}
         THEN <<c>>
         ELSE PercentBytes(Utf8Hex(c))

RECURSIVE FormEncode(_)
FormEncode(s) ==
    IF s = <<>> THEN <<>>
    ELSE FormEncodeChar(Head(s)) \o FormEncode(Tail(s))

\* The serialization of a list of name/value string pairs: name=value
\* joined by "&".
RECURSIVE FormSerialize(_)
FormSerialize(list) ==
    IF list = <<>> THEN <<>>
    ELSE FormEncode(list[1][1]) \o <<"=">> \o FormEncode(list[1][2])
           \o (IF Len(list) > 1 THEN <<"&">> ELSE <<>>)
           \o FormSerialize(Tail(list))

\* url.toString() of a parsed URL whose searchParams list is `list`: the
\* query is absent when no pair was appended.
Href(u, list) ==
    u.scheme \o <<":">>
      \o (IF u.host # <<>> THEN <<"/","/">> \o u.host ELSE <<>>)
      \o u.path
      \o (IF list = <<>> THEN <<>> ELSE <<"?">> \o FormSerialize(list))

\* ------------------------------------------------------- RequestHandler

\* JavaScript's undefined and null, written so that they differ from every
\* string (no character is longer than one letter).
Nullish == { <<"undefined">>, <<"null">> }

\* a ?? b: b when a is null or undefined, a otherwise (the empty string is
\* neither).
NullishCoalesce(a, b) == IF a \in Nullish THEN b ELSE a

DigitValue(c) == (CHOOSE d \in 1..10 : DigitChars[d] = c) - 1

\* a <= b for two strings of decimal digits of the same length.
RECURSIVE DigitsLeq(_, _)
DigitsLeq(a, b) ==
    IF a = <<>> THEN TRUE
    ELSE IF DigitValue(Head(a)) # DigitValue(Head(b))
         THEN DigitValue(Head(a)) < DigitValue(Head(b))
         ELSE DigitsLeq(Tail(a), Tail(b))

\* a <= b for the numbers two canonical digit strings write.
IndexLeq(a, b) == Len(a) < Len(b) \/ (Len(a) = Len(b) /\ DigitsLeq(a, b))

\* A property key that is an array index: the canonical decimal form of an
\* integer from 0 to 2^32 - 2.
IsArrayIndex(k) ==
    /\ k # <<>>
    /\ \A i \in 1..Len(k) : k[i] \in Digit
    /\ (Len(k) = 1 \/ k[1] # "0")
    /\ IndexLeq(k, <<"4","2","9","4","9","6","7","2","9","4">>)

\* Entries with array-index keys, in ascending order of the index.
RECURSIVE Ascending(_)
Ascending(es) ==
    IF es = <<>> THEN <<>>
    ELSE LET m == CHOOSE i \in 1..Len(es) : \A j \in 1..Len(es) :
                      IndexLeq(es[i].key, es[j].key)
         IN  <<es[m]>> \o Ascending(SubSeq(es, 1, m - 1)
                                       \o SubSeq(es, m + 1, Len(es)))

\* Own property keys listed last to first.
ObjectEntries_Reversed(obj) ==
    [i \in 1..Len(obj) |->
        <<obj[Len(obj) + 1 - i].key, obj[Len(obj) + 1 - i].value>>]

\* Object.entries(obj): the [key, value] pairs in own-property order, which
\* is the array-index keys in ascending order, then the other keys in
\* insertion order.
ObjectEntries(obj) ==
    LET ord == Ascending(SelectSeq(obj, LAMBDA e : IsArrayIndex(e.key)))
                 \o SelectSeq(obj, LAMBDA e : ~IsArrayIndex(e.key))
    IN  [i \in 1..Len(ord) |-> <<ord[i].key, ord[i].value>>]

\* The fields of a RequestHandler right after construction.
RequestHandler ==
    [ defaultBaseUrl |->
        <<"h","t","t","p","s",":","/","/","c","o","n","d","u","i","t","-",
          "a","p","i",".","b","o","n","d","a","r","a","c","a","d","e","m",
          "y",".","c","o","m">>,
      baseUrl   |-> <<>>,
      apiPath   |-> <<>>,
      apiParams |-> <<>>,
      apiHeader |-> <<>>,
      apiBody   |-> <<>>,
      request   |-> "null" ]

\* A method that runs to its return statement: the object after the call
\* and the returned value; nothing is thrown and no request is issued
\* through the transport handle (sent: the calls made on this.request).
Returns(obj, ret) ==
    [obj |-> obj, ret |-> ret, threw |-> FALSE, error |-> "",
     value |-> <<>>, sent |-> <<>>]

\* Each method takes the reference it is called on (this) and the object
\* behind it.
\* url rejecting what new URL rejects: it throws and stores nothing.
url_Validates(this, obj, u) ==
    IF ParseURL(u).ok \/ u = <<>>
    THEN Returns([obj EXCEPT !.baseUrl = u], this)
    ELSE [obj |-> obj, ret |-> 0, threw |-> TRUE, error |-> "TypeError",
          value |-> <<>>, sent |-> <<>>]

\* url that starts a new request: it also empties the stored path.
url_ClearsPath(this, obj, u) ==
    Returns([obj EXCEPT !.baseUrl = u, !.apiPath = <<>>], this)

url(this, obj, u) ==
    Returns([obj EXCEPT !.baseUrl = u], this)

\* path appending to the stored path.
path_Appends(this, obj, p) ==
    Returns([obj EXCEPT !.apiPath = obj.apiPath \o p], this)

\* path without its `return this`: the call returns undefined.
path_NoReturn(this, obj, p) ==
    Returns([obj EXCEPT !.apiPath = p], 0)

path(this, obj, p) ==
    Returns([obj EXCEPT !.apiPath = p], this)

\* The entries of `old` whose key `new` does not set, followed by `new`
\* (what { ...old, ...new } holds when the keys differ).
Merged(old, new) ==
    SelectSeq(old, LAMBDA e : \A i \in 1..Len(new) : new[i].key # e.key) \o new

\* param merging the new mapping into the stored one.
param_Merge(this, obj, p) ==
    Returns([obj EXCEPT !.apiParams = Merged(obj.apiParams, p)], this)

param(this, obj, p) ==
    Returns([obj EXCEPT !.apiParams = p], this)

\* header merging the new mapping into the stored one.
header_Merge(this, obj, h) ==
    Returns([obj EXCEPT !.apiHeader = Merged(obj.apiHeader, h)], this)

header(this, obj, h) ==
    Returns([obj EXCEPT !.apiHeader = h], this)

\* body assigning the header field (a slip of copy and paste).
body_WritesHeader(this, obj, b) ==
    Returns([obj EXCEPT !.apiHeader = b], this)

body(this, obj, b) ==
    Returns([obj EXCEPT !.apiBody = b], this)

\* withRequest that starts a new request: it also empties the stored body.
withRequest_ClearsBody(this, obj, r) ==
    Returns([obj EXCEPT !.request = r, !.apiBody = <<>>], this)

\* withRequest that sends a first request through the handle it is given.
withRequest_Invokes(this, obj, r) ==
    [Returns([obj EXCEPT !.request = r], this) EXCEPT !.sent = <<"get">>]

withRequest(this, obj, r) ==
    Returns([obj EXCEPT !.request = r], this)

\* reset whose first two assignments are `this.apiPath = this.baseUrl;
\* this.baseUrl = ''`.
reset_PathFromBaseUrl(this, obj) ==
    Returns([obj EXCEPT !.baseUrl = <<>>, !.apiPath = obj.baseUrl,
                         !.apiParams = <<>>, !.apiHeader = <<>>,
                         !.apiBody = <<>>], this)

\* reset that leaves the stored headers.
reset_KeepsHeaders(this, obj) ==
    Returns([obj EXCEPT !.baseUrl = <<>>, !.apiPath = <<>>,
                         !.apiParams = <<>>, !.apiBody = <<>>], this)

\* reset that also forgets the bound transport handle.
reset_ClearsRequest(this, obj) ==
    Returns([obj EXCEPT !.baseUrl = <<>>, !.apiPath = <<>>,
                         !.apiParams = <<>>, !.apiHeader = <<>>,
                         !.apiBody = <<>>, !.request = "null"], this)

reset(this, obj) ==
    Returns([obj EXCEPT !.baseUrl = <<>>, !.apiPath = <<>>,
                         !.apiParams = <<>>, !.apiHeader = <<>>,
                         !.apiBody = <<>>], this)

\* The searchParams list after the loop of appends: every value converted
\* to a string.
SearchParams(entries) ==
    [i \in 1..Len(entries) |-> <<entries[i][1], ToUSVString(entries[i][2])>>]

\* buildUrl that catches the parse failure and composes from the default
\* base URL instead.
buildUrl_FallbackOnInvalid(obj) ==
    LET u == ParseURL(obj.baseUrl)
        v == IF u.ok THEN u ELSE ParseURL(obj.defaultBaseUrl)
    IN  [threw |-> FALSE, error |-> "", sent |-> <<>>,
         value |-> Href(v, SearchParams(ObjectEntries(obj.apiParams)))]

\* buildUrl that also appends the stored headers to the query.
buildUrl_ReadsHeaders(obj) ==
    LET u == ParseURL(NullishCoalesce(obj.baseUrl, obj.defaultBaseUrl)) IN
    IF ~u.ok
    THEN [threw |-> TRUE, error |-> "TypeError", value |-> <<>>,
          sent |-> <<>>]
    ELSE [threw |-> FALSE, error |-> "", sent |-> <<>>,
          value |-> Href(u, SearchParams(ObjectEntries(obj.apiParams)
                                         \o ObjectEntries(obj.apiHeader)))]

\* buildUrl: the URL is parsed from the stored base URL (the default only
\* when the stored one is null or undefined); a parse failure is a
\* TypeError thrown to the caller; the stored path is not read.
buildUrl(obj) ==
    LET u == ParseURL(NullishCoalesce(obj.baseUrl, obj.defaultBaseUrl)) IN
    IF ~u.ok
    THEN [threw |-> TRUE, error |-> "TypeError", value |-> <<>>,
          sent |-> <<>>]
    ELSE [threw |-> FALSE, error |-> "", sent |-> <<>>,
          value |-> Href(u, SearchParams(ObjectEntries(obj.apiParams)))]

\* ----------------------------------------------------------------- inputs

DefaultOrigin ==
    <<"h","t","t","p","s",":","/","/","c","o","n","d","u","i","t","-",
      "a","p","i",".","b","o","n","d","a","r","a","c","a","d","e","m",
      "y",".","c","o","m">>

\* Base URLs: none, the service's origin without and with a trailing slash,
\* the same host without a scheme, and an origin followed by a path.
Urls ==
    { <<>>,
      DefaultOrigin,
      DefaultOrigin \o <<"/">>,
      <<"c","o","n","d","u","i","t","-","a","p","i",".","b","o","n","d",
        "a","r","a","c","a","d","e","m","y",".","c","o","m">>,
      <<"h","t","t","p","s",":","/","/","a","p","i",".","e","x","a","m",
        "p","l","e",".","c","o","m","/","v","1">> }

PathTags == <<"/","a","p","i","/","t","a","g","s">>

PathArticles == <<"/","a","p","i","/","a","r","t","i","c","l","e","s">>

Paths == { <<>>, PathTags, PathArticles, <<"a","p","i","/","t","a","g","s">> }

ParamsA == << Entry(<<"a">>, NumV(1)) >>

ParamsB == << Entry(<<"b">>, NumV(2)) >>

ParamsLimitOffset ==
    << Entry(<<"l","i","m","i","t">>, NumV(10)),
       Entry(<<"o","f","f","s","e","t">>, NumV(0)) >>

ParamsReserved ==
    << Entry(<<"q"," ","q">>, StrV(<<"x","&","y","=","é">>)) >>

\* { b: 2, 7: 1 }: a name that is an array index, written last.
ParamsIndexName ==
    << Entry(<<"b">>, NumV(2)), Entry(<<"7">>, NumV(1)) >>

ParamObjects ==
    { <<>>, ParamsA, ParamsB, ParamsLimitOffset, ParamsReserved,
      ParamsIndexName }

HeaderAuthToken ==
    << Entry(<<"A","u","t","h","o","r","i","z","a","t","i","o","n">>,
             StrV(<<"a","u","t","h","T","o","k","e","n">>)) >>

HeaderAccept ==
    << Entry(<<"A","c","c","e","p","t">>, StrV(<<"j","s","o","n">>)) >>

HeaderObjects == { <<>>, HeaderAuthToken, HeaderAccept }

BodyArticle ==
    << Entry(<<"t","i","t","l","e">>, StrV(<<"C","r","i","c","k","e","t">>)) >>

BodyObjects == { <<>>, BodyArticle }

UrlExample ==
    <<"h","t","t","p","s",":","/","/","a","p","i",".","e","x","a","m",
      "p","l","e",".","c","o","m","/","v","1">>

BodyDescription ==
    << Entry(<<"d","e","s","c","r","i","p","t","i","o","n">>,
             StrV(<<"T","e","s","t">>)) >>

Requests == { "null", "request" }

\* ------------------------------------------------------------------ state

VARIABLES
    heap,       \* the live RequestHandler objects, by reference
    api,        \* the reference the running test holds (its api fixture)
    lastCall,   \* the most recent call: its method, receiver, argument
                \* and outcome (ret 0: the call returned no reference)
    paramArgs,  \* arguments of the param calls on the live instance since
                \* its construction or last reset (the last two of them)
    sent,       \* the calls the builder has made on a transport handle
    written,    \* for each facet of a builder that callers share: who
                \* called its setter last since construction or reset, and
                \* with what argument
    pc,         \* where the worker that runs the hooks file stands
    authToken,  \* the file-level variable authToken of the hooks file
    test,       \* the test of the hooks file that runs, or runs next
    retry,      \* how many times that test has been run again
    response,   \* the response the hooks file is awaiting or reading
    issued,     \* the token the service returned to this worker's login
    lastRequest, \* the request the hooks file sent last
    logins,     \* how many login requests the run of the hooks file sent
    run,        \* the article test that runs: its file, its position, its
                \* local variables and the requests it has sent
    articles    \* the slugs of the articles the service holds

builderVars == <<heap, api, lastCall, paramArgs, sent, written>>

hookVars ==
    <<pc, authToken, test, retry, response, issued, lastRequest, logins>>

articleVars == <<run, articles>>

vars == <<heap, api, lastCall, paramArgs, sent, written,
          pc, authToken, test, retry, response, issued, lastRequest, logins,
          run, articles>>

Call(op, self, arg, ret, out) ==
    [op |-> op, self |-> self, arg |-> arg, ret |-> ret,
     threw |-> out.threw, error |-> out.error, value |-> out.value]

\* The outcome of a call that returns a reference and cannot throw.
NoUrl == [threw |-> FALSE, error |-> "", value |-> <<>>]

Last2(s) == IF Len(s) > 2 THEN Tail(s) ELSE s

\* JavaScript's undefined, the value of a variable declared without one.
Undefined == <<"undefined">>

NoResponse == [ok |-> FALSE, token |-> <<>>, slug |-> <<>>]

NoRequest == [req |-> "none", auth |-> <<>>, slug |-> <<>>, hook |-> <<>>]

\* No setter has been called on the builder.
NoneWritten ==
    [f \in {"url", "path", "param", "header", "body"} |->
        [by |-> "none", arg |-> <<>>]]

\* The fixture has constructed the first test's instance.
BuilderInit ==
    /\ written = NoneWritten
    /\ api = 1
    /\ heap = (1 :> RequestHandler)
    /\ lastCall = Call("new", 1, <<>>, 1, NoUrl)
    /\ paramArgs = <<>>
    /\ sent = <<>>

\* No worker has loaded the hooks file.
HooksIdle ==
    /\ pc = "idle"
    /\ authToken = Undefined
    /\ test = 1
    /\ retry = 0
    /\ response = NoResponse
    /\ issued = <<>>
    /\ lastRequest = NoRequest
    /\ logins = 0

NoArticleResponse == [ok |-> FALSE, title |-> FALSE, slug |-> <<>>]

\* An article test at its first statement.
StartOf(file, first) ==
    [file |-> file, pc |-> first, slug |-> Undefined,
     newSlugId |-> Undefined, response |-> NoArticleResponse,
     requests |-> <<>>, failedAt |-> "none", mine |-> <<>>]

\* No article test has started and the service holds no article of theirs.
ArticlesIdle ==
    /\ run = StartOf("none", "idle")
    /\ articles = {}

Init == BuilderInit /\ HooksIdle /\ ArticlesIdle

\* The fixture of the next test constructs a new instance; the instance of
\* the test that ended is no longer referenced.
NewRequestHandler ==
    /\ api < MaxInstances
    /\ api' = api + 1
    /\ heap' = ((api + 1) :> RequestHandler)
    /\ lastCall' = Call("new", api + 1, <<>>, api + 1, NoUrl)
    /\ paramArgs' = <<>>
    /\ UNCHANGED sent
    /\ UNCHANGED <<written, hookVars, articleVars>>

Setter(op, arg, r) ==
    /\ heap' = [heap EXCEPT ![api] = r.obj]
    /\ lastCall' = Call(op, api, arg, r.ret, r)
    /\ sent' = sent \o r.sent
    /\ UNCHANGED api
    /\ UNCHANGED <<written, hookVars, articleVars>>

Url ==
    \E u \in Urls :
        /\ Setter("url", u, url(api, heap[api], u))
        /\ UNCHANGED paramArgs

Path ==
    \E p \in Paths :
        /\ Setter("path", p, path(api, heap[api], p))
        /\ UNCHANGED paramArgs

Param ==
    \E p \in ParamObjects :
        /\ Setter("param", p, param(api, heap[api], p))
        /\ paramArgs' = Last2(Append(paramArgs, p))

Header ==
    \E h \in HeaderObjects :
        /\ Setter("header", h, header(api, heap[api], h))
        /\ UNCHANGED paramArgs

Body ==
    \E b \in BodyObjects :
        /\ Setter("body", b, body(api, heap[api], b))
        /\ UNCHANGED paramArgs

WithRequest ==
    \E r \in Requests :
        /\ Setter("withRequest", r, withRequest(api, heap[api], r))
        /\ UNCHANGED paramArgs

Reset ==
    /\ Setter("reset", <<>>, reset(api, heap[api]))
    /\ paramArgs' = <<>>

\* A buildUrl that empties the stored parameters once it has used them.
BuildUrl_Consumes ==
    LET out == buildUrl(heap[api]) IN
    /\ lastCall' = Call("buildUrl", api, <<>>, 0, out)
    /\ sent' = sent \o out.sent
    /\ heap' = [heap EXCEPT ![api].apiParams = <<>>]
    /\ UNCHANGED <<api, paramArgs>>
    /\ UNCHANGED <<written, hookVars, articleVars>>

BuildUrl ==
    LET out == buildUrl(heap[api]) IN
    /\ lastCall' = Call("buildUrl", api, <<>>, 0, out)
    /\ sent' = sent \o out.sent
    /\ UNCHANGED <<heap, api, paramArgs>>
    /\ UNCHANGED <<written, hookVars, articleVars>>

Next ==
    \/ NewRequestHandler
    \/ Url
    \/ Path
    \/ Param
    \/ Header
    \/ Body
    \/ WithRequest
    \/ Reset
    \/ BuildUrl

Spec == Init /\ [][Next]_vars

\* ------------------------------------------- the api fixture, instance by
\* instance: every instance the fixture constructed stays in the heap, held
\* by the test it was handed to.

\* new RequestHandler() in the fixture: a reference no test holds yet, to
\* an object in its constructed state.
apiFixture_Shared(h) ==
    [heap |-> h, ref |-> CHOOSE r \in DOMAIN h : \A q \in DOMAIN h : r <= q]

apiFixture(h) ==
    LET ref == Cardinality(DOMAIN h) + 1 IN
    [heap |-> h @@ (ref :> RequestHandler), ref |-> ref]

\* The next test starts: its fixture runs and hands it an instance.
FixtureUse ==
    /\ Cardinality(DOMAIN heap) < MaxInstances
    /\ LET r == apiFixture(heap) IN
         /\ heap' = r.heap
         /\ api' = r.ref
         /\ lastCall' = Call("new", r.ref, <<>>, r.ref, NoUrl)
    /\ UNCHANGED <<paramArgs, sent>>
    /\ UNCHANGED <<written, hookVars, articleVars>>

\* A call of the test that holds instance t.
TestCall(t, op, arg, r) ==
    /\ heap' = [heap EXCEPT ![t] = r.obj]
    /\ lastCall' = Call(op, t, arg, r.ret, r)
    /\ sent' = sent \o r.sent
    /\ UNCHANGED <<api, paramArgs>>
    /\ UNCHANGED <<written, hookVars, articleVars>>

TestUrl ==
    \E t \in DOMAIN heap :
        TestCall(t, "url", DefaultOrigin, url(t, heap[t], DefaultOrigin))

TestPath ==
    \E t \in DOMAIN heap : \E p \in {PathTags, PathArticles} :
        TestCall(t, "path", p, path(t, heap[t], p))

TestParam ==
    \E t \in DOMAIN heap :
        TestCall(t, "param", ParamsLimitOffset,
                 param(t, heap[t], ParamsLimitOffset))

TestHeader ==
    \E t \in DOMAIN heap :
        TestCall(t, "header", HeaderAuthToken,
                 header(t, heap[t], HeaderAuthToken))

FixtureNext ==
    \/ FixtureUse
    \/ TestUrl
    \/ TestPath
    \/ TestParam
    \/ TestHeader

FixtureSpec == Init /\ [][FixtureNext]_vars

\* ------------------------------------------- one builder, several callers:
\* the callers hold the same instance and each calls its methods with its
\* own arguments, in any order and interleaved in any way.

Callers == {"A", "B"}

\* What each caller passes to the setters.
ArgsOf(c) ==
    IF c = "A"
    THEN [url |-> DefaultOrigin, path |-> PathTags, param |-> ParamsA,
          header |-> HeaderAuthToken, body |-> BodyArticle]
    ELSE [url |-> UrlExample, path |-> PathArticles, param |-> ParamsB,
          header |-> HeaderAccept, body |-> BodyDescription]

\* A call of caller c that returns r; w is what the facets have been
\* written with once it has returned.
CallerCall(op, arg, r, w) ==
    /\ heap' = [heap EXCEPT ![api] = r.obj]
    /\ lastCall' = Call(op, api, arg, r.ret, r)
    /\ sent' = sent \o r.sent
    /\ written' = w
    /\ UNCHANGED <<api, paramArgs>>
    /\ UNCHANGED <<hookVars, articleVars>>

Wrote(f, c) == [written EXCEPT ![f] = [by |-> c, arg |-> ArgsOf(c)[f]]]

CallerUrl ==
    \E c \in Callers :
        CallerCall("url", ArgsOf(c).url, url(api, heap[api], ArgsOf(c).url),
                   Wrote("url", c))

CallerPath ==
    \E c \in Callers :
        CallerCall("path", ArgsOf(c).path,
                   path(api, heap[api], ArgsOf(c).path), Wrote("path", c))

CallerParam ==
    \E c \in Callers :
        CallerCall("param", ArgsOf(c).param,
                   param(api, heap[api], ArgsOf(c).param), Wrote("param", c))

CallerHeader ==
    \E c \in Callers :
        CallerCall("header", ArgsOf(c).header,
                   header(api, heap[api], ArgsOf(c).header),
                   Wrote("header", c))

CallerBody ==
    \E c \in Callers :
        CallerCall("body", ArgsOf(c).body,
                   body(api, heap[api], ArgsOf(c).body), Wrote("body", c))

CallerWithRequest ==
    \E r \in Requests :
        CallerCall("withRequest", r, withRequest(api, heap[api], r), written)

CallerReset ==
    CallerCall("reset", <<>>, reset(api, heap[api]), NoneWritten)

CallerBuildUrl ==
    LET out == buildUrl(heap[api]) IN
    /\ lastCall' = Call("buildUrl", api, <<>>, 0, out)
    /\ sent' = sent \o out.sent
    /\ UNCHANGED <<heap, api, paramArgs, written>>
    /\ UNCHANGED <<hookVars, articleVars>>

CallersNext ==
    \/ CallerUrl
    \/ CallerPath
    \/ CallerParam
    \/ CallerHeader
    \/ CallerBody
    \/ CallerWithRequest
    \/ CallerReset
    \/ CallerBuildUrl

CallersSpec == Init /\ [][CallersNext]_vars

\* --------------------------------------------------- the hooks test file

Tokens == { <<"j","w","t","1">>, <<"j","w","t","2">> }

Slugs == { <<"c","r","i","c","k","e","t","-","1">>,
           <<"c","r","i","c","k","e","t","-","2">> }

\* What the service may answer to the login: a user with a token, or a
\* body without a user.
LoginResponses ==
    { [ok |-> TRUE, token |-> t, slug |-> <<>>] : t \in Tokens }
      \cup { NoResponse }

\* What the service may answer to the creation of an article: the article
\* with the expected status and title, or anything else.
CreateResponses ==
    { [ok |-> TRUE, token |-> <<>>, slug |-> g] : g \in Slugs }
      \cup { NoResponse }

DeleteResponses ==
    { [ok |-> TRUE, token |-> <<>>, slug |-> <<>>], NoResponse }

TokenPrefix == <<"T","o","k","e","n"," ">>

\* A hook that declares its own authToken: the file-level one is left.
beforeAllAssign_Shadowed(old, resp) == old

\* authToken = 'Token ' + tokenResponseJson.user.token
beforeAllAssign(old, resp) == TokenPrefix \o resp.token

HooksInit ==
    /\ BuilderInit
    /\ pc = "spawn"
    /\ authToken = Undefined
    /\ test = 1
    /\ retry = 0
    /\ response = NoResponse
    /\ issued = <<>>
    /\ lastRequest = NoRequest
    /\ logins = 0
    /\ ArticlesIdle

\* A worker process starts and loads the file: authToken is declared and
\* the runner runs the beforeAll hook before any test.
WorkerSpawn ==
    /\ pc = "spawn"
    /\ pc' = "beforeAll:post"
    /\ authToken' = Undefined
    /\ issued' = <<>>
    /\ response' = NoResponse
    /\ UNCHANGED <<test, retry, lastRequest, logins>>
    /\ UNCHANGED <<builderVars, articleVars>>

\* The test that ran has failed: the runner runs it again in a new worker
\* while retries are left, and runs what remains of the file in a new
\* worker otherwise.
Failed ==
    IF retry < MaxRetries
    THEN pc' = "spawn" /\ retry' = retry + 1 /\ test' = test
    ELSE IF test < FileTests
         THEN pc' = "spawn" /\ retry' = 0 /\ test' = test + 1
         ELSE pc' = "done" /\ UNCHANGED <<test, retry>>

\* The test that ran has passed: the next one runs in the same worker, or
\* in another worker when the runner spreads the tests of a file.
Passed ==
    IF test < FileTests
    THEN /\ pc' \in {"test:create", "spawn"}
         /\ retry' = 0
         /\ test' = test + 1
    ELSE pc' = "done" /\ UNCHANGED <<test, retry>>

\* beforeAll: await request.post(login).
BeforeAllPost ==
    /\ pc = "beforeAll:post"
    /\ \E r \in LoginResponses :
          /\ response' = r
          /\ issued' = r.token
    /\ lastRequest' = [req |-> "login", auth |-> <<>>, slug |-> <<>>,
                       hook |-> <<>>]
    /\ logins' = logins + 1
    /\ pc' = "beforeAll:assign"
    /\ UNCHANGED <<authToken, test, retry>>
    /\ UNCHANGED <<builderVars, articleVars>>

\* beforeAll: await tokenResponse.json() and the assignment of authToken;
\* reading .token of a missing user throws and the hook fails, so that no
\* test body of this worker runs.
BeforeAllAssign ==
    /\ pc = "beforeAll:assign"
    /\ IF response.ok
       THEN /\ authToken' = beforeAllAssign(authToken, response)
            /\ pc' = "test:create"
            /\ UNCHANGED <<test, retry>>
       ELSE /\ Failed
            /\ UNCHANGED authToken
    /\ UNCHANGED <<response, issued, lastRequest, logins>>
    /\ UNCHANGED <<builderVars, articleVars>>

\* The test body: await request.post(articles) with Authorization.
TestCreate ==
    /\ pc = "test:create"
    /\ \E r \in CreateResponses : response' = r
    /\ lastRequest' = [req |-> "create", auth |-> authToken, slug |-> <<>>,
                       hook |-> issued]
    /\ pc' = "test:created"
    /\ UNCHANGED <<authToken, test, retry, issued, logins>>
    /\ UNCHANGED <<builderVars, articleVars>>

\* The test body: the status and title checks on the created article.
TestExpectCreated ==
    /\ pc = "test:created"
    /\ IF response.ok
       THEN pc' = "test:delete" /\ UNCHANGED <<test, retry>>
       ELSE Failed
    /\ UNCHANGED <<authToken, response, issued, lastRequest, logins>>
    /\ UNCHANGED <<builderVars, articleVars>>

\* The test body: await request.delete(articles/slug) with Authorization.
TestDelete ==
    /\ pc = "test:delete"
    /\ lastRequest' = [req |-> "delete", auth |-> authToken,
                       slug |-> response.slug, hook |-> issued]
    /\ \E r \in DeleteResponses : response' = r
    /\ pc' = "test:deleted"
    /\ UNCHANGED <<authToken, test, retry, issued, logins>>
    /\ UNCHANGED <<builderVars, articleVars>>

\* The test body: the status check on the deletion.
TestExpectDeleted ==
    /\ pc = "test:deleted"
    /\ IF response.ok THEN Passed ELSE Failed
    /\ UNCHANGED <<authToken, response, issued, lastRequest, logins>>
    /\ UNCHANGED <<builderVars, articleVars>>

HooksNext ==
    \/ WorkerSpawn
    \/ BeforeAllPost
    \/ BeforeAllAssign
    \/ TestCreate
    \/ TestExpectCreated
    \/ TestDelete
    \/ TestExpectDeleted

HooksSpec == HooksInit /\ [][HooksNext]_vars

\* ------------------------------------------------------ the article tests

ArticleSlugs == Slugs \cup { <<"c","r","i","c","k","e","t","-","3">> }

\* The statements of each article test, in the order of its file: a
\* request, or the checks on its response.
Steps(file) ==
    CASE file = "Create Articles" ->
           <<"login", "token", "create", "expect:201", "expect:title",
             "list", "expect:listed", "delete", "expect:204">>
      [] file = "PUt Update Articles" ->
           <<"login", "token", "create", "expect:201", "expect:title",
             "update", "expect:200", "expect:updatedTitle",
             "delete", "expect:204">>
      [] file = "Delete Articles" ->
           <<"create", "expect:201", "expect:title", "delete", "expect:204">>

Files == {"Create Articles", "PUt Update Articles", "Delete Articles"}

\* The statement that follows `step` in the file, or the end of the test.
After(file, step) ==
    LET i == CHOOSE k \in 1..Len(Steps(file)) : Steps(file)[k] = step IN
    IF i < Len(Steps(file)) THEN Steps(file)[i + 1] ELSE "passed"

\* expect.soft: a failed check is recorded and the test goes on.
expect_Soft(r, ok) ==
    [r EXCEPT !.pc = After(r.file, r.pc),
              !.failedAt = IF ok \/ r.failedAt # "none"
                           THEN r.failedAt ELSE r.pc]

\* expect(...): a failed check throws, which ends the test there.
expect(r, ok) ==
    IF ok
    THEN [r EXCEPT !.pc = After(r.file, r.pc)]
    ELSE [r EXCEPT !.pc = "failed", !.failedAt = r.pc]

\* A delete request that always names the slug of the creation.
deleteTarget_CreatedSlug(r) == r.slug

\* The slug in the URL of the delete request: newSlugId in the update
\* test, slug in the others.
deleteTarget(r) ==
    IF r.file = "PUt Update Articles" THEN r.newSlugId ELSE r.slug

\* The test has awaited a request: the request is logged with the slug it
\* names and with its response.
Sent(r, req, target, resp) ==
    [r EXCEPT !.pc = After(r.file, r.pc),
              !.response = resp,
              !.requests = Append(r.requests,
                  [req |-> req, target |-> target, got |-> resp.slug,
                   ok |-> resp.ok, title |-> resp.title])]

ArticleFrame ==
    /\ UNCHANGED builderVars
    /\ UNCHANGED hookVars

\* The runner starts an article test.
ArticleStart ==
    /\ run.pc \in {"idle", "passed", "failed"}
    /\ \E f \in Files : run' = StartOf(f, Steps(f)[1])
    /\ UNCHANGED articles
    /\ ArticleFrame

\* await request.post(login) in the body of a test.
ArticleLogin ==
    /\ run.pc = "login"
    /\ \E ok \in BOOLEAN :
          run' = Sent(run, "login", <<>>,
                      [ok |-> ok, title |-> FALSE, slug |-> <<>>])
    /\ UNCHANGED articles
    /\ ArticleFrame

\* 'Token ' + tokenResponseJson.user.token: throws without a user.
ArticleToken ==
    /\ run.pc = "token"
    /\ run' = IF run.response.ok
              THEN [run EXCEPT !.pc = After(run.file, run.pc)]
              ELSE [run EXCEPT !.pc = "failed", !.failedAt = run.pc]
    /\ UNCHANGED articles
    /\ ArticleFrame

\* await request.post(articles): the service stores the article under a
\* slug of its choosing and answers 201 with the article, whose title may
\* or may not be the one expected; or it refuses and stores nothing.
ArticleCreate ==
    /\ run.pc = "create"
    /\ \/ \E g \in ArticleSlugs \ articles : \E t \in BOOLEAN :
             /\ articles' = articles \cup {g}
             /\ run' = [Sent(run, "create", <<>>,
                             [ok |-> TRUE, title |-> t, slug |-> g])
                          EXCEPT !.mine = g]
       \/ /\ UNCHANGED articles
          /\ run' = Sent(run, "create", <<>>, NoArticleResponse)
    /\ ArticleFrame

\* expect(status()).toEqual(201) and .toEqual(200)
ArticleExpectStatus ==
    /\ run.pc \in {"expect:201", "expect:200"}
    /\ run' = expect(run, run.response.ok)
    /\ UNCHANGED articles
    /\ ArticleFrame

\* expect(article.title).toBe(...), then const slug = article.slug
ArticleExpectTitle ==
    /\ run.pc = "expect:title"
    /\ run' = [expect(run, run.response.title)
                 EXCEPT !.slug = IF run.response.title
                                 THEN run.response.slug ELSE run.slug]
    /\ UNCHANGED articles
    /\ ArticleFrame

\* await request.get(articles?limit=10&offset=0): the first article listed
\* has the expected title or not.
ArticleList ==
    /\ run.pc = "list"
    /\ \E t \in BOOLEAN :
          run' = Sent(run, "list", <<>>,
                      [ok |-> TRUE, title |-> t, slug |-> <<>>])
    /\ UNCHANGED articles
    /\ ArticleFrame

\* expect(articles[0].title).toBe('Cricket')
ArticleExpectListed ==
    /\ run.pc = "expect:listed"
    /\ run' = expect(run, run.response.title)
    /\ UNCHANGED articles
    /\ ArticleFrame

\* await request.put(articles/slug): the service renames the article,
\* which may change its slug, and answers 200; or it refuses.
ArticleUpdate ==
    /\ run.pc = "update"
    /\ \/ /\ run.slug \in articles
          /\ \E g \in (ArticleSlugs \ articles) \cup {run.slug} :
             \E t \in BOOLEAN :
               /\ articles' = (articles \ {run.slug}) \cup {g}
               /\ run' = [Sent(run, "update", run.slug,
                               [ok |-> TRUE, title |-> t, slug |-> g])
                            EXCEPT !.mine = g]
       \/ /\ UNCHANGED articles
          /\ run' = Sent(run, "update", run.slug, NoArticleResponse)
    /\ ArticleFrame

\* expect(article.title).toBe('Cricket_03'), then const newSlugId = ...
ArticleExpectUpdatedTitle ==
    /\ run.pc = "expect:updatedTitle"
    /\ run' = [expect(run, run.response.title)
                 EXCEPT !.newSlugId = IF run.response.title
                                      THEN run.response.slug
                                      ELSE run.newSlugId]
    /\ UNCHANGED articles
    /\ ArticleFrame

\* await request.delete(articles/slug): the service removes the article
\* of that slug and answers 204, or answers something else and keeps it.
ArticleDelete ==
    /\ run.pc = "delete"
    /\ LET target == deleteTarget(run) IN
       \/ /\ target \in articles
          /\ articles' = articles \ {target}
          /\ run' = Sent(run, "delete", target,
                         [ok |-> TRUE, title |-> FALSE, slug |-> <<>>])
       \/ /\ UNCHANGED articles
          /\ run' = Sent(run, "delete", target, NoArticleResponse)
    /\ ArticleFrame

\* expect(status()).toBe(204)
ArticleExpectDeleted ==
    /\ run.pc = "expect:204"
    /\ run' = expect(run, run.response.ok)
    /\ UNCHANGED articles
    /\ ArticleFrame

ArticlesNext ==
    \/ ArticleStart
    \/ ArticleLogin
    \/ ArticleToken
    \/ ArticleCreate
    \/ ArticleExpectStatus
    \/ ArticleExpectTitle
    \/ ArticleList
    \/ ArticleExpectListed
    \/ ArticleUpdate
    \/ ArticleExpectUpdatedTitle
    \/ ArticleDelete
    \/ ArticleExpectDeleted

ArticlesSpec == Init /\ [][ArticlesNext]_vars

\* ------------------------------------------------- reading a URL back

\* The part of a string before its first "?".
RECURSIVE BeforeQuery(_)
BeforeQuery(s) ==
    IF s = <<>> \/ Head(s) = "?" THEN <<>>
    ELSE <<Head(s)>> \o BeforeQuery(Tail(s))

\* The part of a string after its first "?" (empty when there is none).
QueryOf(s) == SubSeq(s, Len(BeforeQuery(s)) + 2, Len(s))

\* The pieces of s between the occurrences of sep.
RECURSIVE Split(_, _)
Split(s, sep) ==
    IF s = <<>> THEN << <<>> >>
    ELSE LET rest == Split(Tail(s), sep) IN
         IF Head(s) = sep THEN << <<>> >> \o rest
         ELSE << <<Head(s)>> \o Head(rest) >> \o Tail(rest)

IsPrefix(p, s) == Len(p) <= Len(s) /\ SubSeq(s, 1, Len(p)) = p

Encodable == {"&", "=", "/", ":", "+", "%", "?", "é"}

\* Decoding of application/x-www-form-urlencoded text: "+" is a space and
\* a run of percent-encoded bytes is the character they are the UTF-8 of.
RECURSIVE FormDecode(_)
FormDecode(s) ==
    IF s = <<>> THEN <<>>
    ELSE IF Head(s) = "+" THEN <<" ">> \o FormDecode(Tail(s))
    ELSE IF Head(s) = "%"
         THEN LET c == CHOOSE c \in Encodable :
                           IsPrefix(PercentBytes(Utf8Hex(c)), s)
                  n == Len(PercentBytes(Utf8Hex(c)))
              IN  <<c>> \o FormDecode(SubSeq(s, n + 1, Len(s)))
         ELSE <<Head(s)>> \o FormDecode(Tail(s))

\* The name/value pairs a query string decodes to.
FormParse(q) ==
    IF q = <<>> THEN <<>>
    ELSE LET parts == Split(q, "&") IN
         [i \in 1..Len(parts) |->
            LET kv == Split(parts[i], "=") IN
            << FormDecode(kv[1]),
               IF Len(kv) > 1 THEN FormDecode(kv[2]) ELSE <<>> >>]

\* scheme://host of a URL string.
OriginOf(s) ==
    LET u == ParseURL(s) IN u.scheme \o <<":", "/", "/">> \o u.host

RECURSIVE StripLeadingSlashes(_)
StripLeadingSlashes(s) ==
    IF s # <<>> /\ Head(s) = "/" THEN StripLeadingSlashes(Tail(s)) ELSE s

RECURSIVE StripTrailingSlashes(_)
StripTrailingSlashes(s) ==
    IF s # <<>> /\ s[Len(s)] = "/"
    THEN StripTrailingSlashes(SubSeq(s, 1, Len(s) - 1)) ELSE s

\* Base and path joined by exactly one slash.
JoinOneSlash(base, p) ==
    StripTrailingSlashes(base) \o <<"/">> \o StripLeadingSlashes(p)

\* The origin the specification resolves: the stored base URL when it is
\* not empty, the default otherwise.
EffectiveOrigin(obj) ==
    IF obj.baseUrl = <<>> THEN obj.defaultBaseUrl ELSE obj.baseUrl

ConfigOps == {"url", "path", "param", "header", "body", "withRequest", "reset"}

\* The object the running test holds.
Obj == heap[api]

\* ----------------------------------------------------------------- claims

\* C1: every configuration call (url, path, param, header, body,
\* withRequest, reset) returns the very instance it was called on.
C1_FluentIdentity ==
    lastCall.op \in ConfigOps =>
        /\ lastCall.ret = lastCall.self
        /\ lastCall.self \in DOMAIN heap

\* C1 witness: the chain path(...).param(...).header(...) of the fixture
\* test has run on the second instance and its last call returned it.
C1_Witness ==
    /\ api = 2
    /\ lastCall.op = "header"
    /\ lastCall.ret = 2
    /\ Obj.apiPath = PathArticles
    /\ Obj.apiParams = ParamsLimitOffset
    /\ Obj.apiHeader = HeaderAuthToken

\* C2: buildUrl on a builder whose base URL is unset or empty composes
\* from the default origin; with a non-empty (valid) base URL stored, that
\* base URL is the origin.
C2_OriginResolution ==
    lastCall.op = "buildUrl" =>
        /\ Obj.baseUrl = <<>> =>
              /\ ~lastCall.threw
              /\ OriginOf(lastCall.value) = Obj.defaultBaseUrl
        /\ Obj.baseUrl # <<>> /\ ParseURL(Obj.baseUrl).ok =>
              /\ ~lastCall.threw
              /\ OriginOf(lastCall.value) = OriginOf(Obj.baseUrl)

\* C3: on a fresh builder with only path('/api/tags') called, buildUrl
\* returns the default origin followed by '/api/tags'.
C3_DefaultOriginTags ==
    /\ lastCall.op = "buildUrl"
    /\ Obj = [RequestHandler EXCEPT !.apiPath = PathTags]
    => /\ ~lastCall.threw
       /\ lastCall.value = Obj.defaultBaseUrl \o PathTags

\* C4: for every valid base URL and every path, with or without a trailing
\* slash on the one and a leading slash on the other, the composed URL
\* holds the path, with exactly one slash between origin and path.
C4_OneSlashJoin ==
    /\ lastCall.op = "buildUrl"
    /\ ParseURL(Obj.baseUrl).ok
    /\ Obj.apiPath # <<>>
    => /\ ~lastCall.threw
       /\ BeforeQuery(lastCall.value) = JoinOneSlash(Obj.baseUrl, Obj.apiPath)

\* C5: after param was called twice with different mappings, the query
\* string buildUrl composes decodes to exactly the entries of the second
\* mapping, and holds no entry that only the first mapping has.
C5_ParamReplaces ==
    /\ lastCall.op = "buildUrl"
    /\ ~lastCall.threw
    /\ Len(paramArgs) = 2
    /\ paramArgs[1] # paramArgs[2]
    => LET got    == FormParse(QueryOf(lastCall.value))
           first  == SearchParams(ObjectEntries(paramArgs[1]))
           second == SearchParams(ObjectEntries(paramArgs[2]))
       IN  /\ got = second
           /\ \A i \in 1..Len(first) :
                 (\A j \in 1..Len(second) : second[j] # first[i])
                 => \A k \in 1..Len(got) : got[k] # first[i]

\* C5 witness: param({a:1}).param({b:2}) then buildUrl gave the query b=2.
C5_Witness ==
    /\ lastCall.op = "buildUrl"
    /\ ~lastCall.threw
    /\ paramArgs = <<ParamsA, ParamsB>>
    /\ QueryOf(lastCall.value) = <<"b", "=", "2">>

\* C6: after a header call the stored header mapping is exactly the
\* argument of that call, whatever earlier header calls stored.
C6_HeaderLastCallWins ==
    lastCall.op = "header" => Obj.apiHeader = lastCall.arg

\* C6 witness: a header call that names only Accept has run on an instance
\* and Authorization, which only another mapping holds, is not stored.
C6_Witness ==
    /\ lastCall.op = "header"
    /\ lastCall.arg = HeaderAccept
    /\ Obj.apiHeader = HeaderAccept
    /\ \A i \in 1..Len(Obj.apiHeader) :
          Obj.apiHeader[i].key # HeaderAuthToken[1].key

\* C7: reset sets base URL, path, query parameters, headers and body to
\* their values at construction and leaves the transport handle as it was.
C7_ResetScope ==
    [][lastCall'.op = "reset" =>
          /\ api' = api
          /\ heap'[api] = [RequestHandler EXCEPT !.request = heap[api].request]
      ]_vars

\* C7 witness: reset has run on a builder with a bound transport handle,
\* which is still bound while every other facet is empty.
C7_Witness ==
    /\ lastCall.op = "reset"
    /\ Obj.request = "request"
    /\ Obj = [RequestHandler EXCEPT !.request = "request"]

\* C8: reset followed immediately by buildUrl returns the default-origin
\* URL, with an empty or root path and no query string.
C8_ResetThenCompose ==
    [][lastCall.op = "reset" /\ lastCall'.op = "buildUrl" =>
          /\ ~lastCall'.threw
          /\ lastCall'.value \in
                { heap[api].defaultBaseUrl,
                  heap[api].defaultBaseUrl \o <<"/">> }
      ]_vars

\* C9: buildUrl throws the invalid-URL error whenever the effective origin
\* is not a valid absolute URL, and composes nothing.
C9_InvalidOriginThrows ==
    lastCall.op = "buildUrl" /\ ~ParseURL(EffectiveOrigin(Obj)).ok =>
        /\ lastCall.threw
        /\ lastCall.error = "TypeError"
        /\ lastCall.value = <<>>

\* C9 witness: buildUrl has thrown on a stored base URL without a scheme.
C9_Witness ==
    /\ lastCall.op = "buildUrl"
    /\ Obj.baseUrl # <<>>
    /\ SchemeEnd(Obj.baseUrl) = 0
    /\ lastCall.threw

\* C10: buildUrl never throws when the effective origin is a valid
\* absolute URL, in particular on a fresh or freshly reset builder.
C10_ValidOriginNeverThrows ==
    lastCall.op = "buildUrl" /\ ParseURL(EffectiveOrigin(Obj)).ok =>
        ~lastCall.threw

\* C11: no configuration call fails, whatever its argument and the state:
\* it returns normally and a malformed base URL is stored as it is given.
C11_SettersNeverFail ==
    lastCall.op \in ConfigOps =>
        /\ ~lastCall.threw
        /\ lastCall.error = ""
        /\ lastCall.op = "url" => Obj.baseUrl = lastCall.arg

\* C11 witness: url has accepted and stored a base URL without a scheme,
\* which new URL rejects.
C11_Witness ==
    /\ lastCall.op = "url"
    /\ ~lastCall.threw
    /\ lastCall.arg # <<>>
    /\ ~ParseURL(lastCall.arg).ok
    /\ Obj.baseUrl = lastCall.arg

\* C12: buildUrl leaves every stored facet (base URL, path, parameters,
\* headers, body, transport handle) as it was, whether it returns a URL or
\* throws.
C12_BuildUrlReadsOnly ==
    [][lastCall'.op = "buildUrl" => api' = api /\ heap' = heap]_vars

\* C12 witness: buildUrl has returned a URL with a query on a builder whose
\* every facet is set, and the facets are still there.
C12_Witness ==
    /\ lastCall.op = "buildUrl"
    /\ ~lastCall.threw
    /\ QueryOf(lastCall.value) # <<>>
    /\ Obj.apiParams = ParamsLimitOffset
    /\ Obj.apiPath = PathArticles
    /\ Obj.apiHeader = HeaderAuthToken
    /\ Obj.apiBody = BodyArticle
    /\ Obj.request = "request"

\* The outcome of a buildUrl call: thrown or not, the error, the URL.
Outcome(c) == <<c.threw, c.error, c.value>>

\* The builder that holds the same base URL, path and parameters and
\* nothing else.
UrlFacets(obj) ==
    [RequestHandler EXCEPT !.baseUrl = obj.baseUrl, !.apiPath = obj.apiPath,
                           !.apiParams = obj.apiParams]

\* C13: the result of buildUrl is a function of the stored base URL, path
\* and parameters alone: it is the result on a builder that holds those
\* three and no header, body or handle, whatever calls came before, and a
\* second buildUrl right after the first gives the same result.
C13_FunctionOfState ==
    [][/\ lastCall'.op = "buildUrl" =>
            Outcome(lastCall') = Outcome(buildUrl(UrlFacets(heap'[api'])))
       /\ lastCall.op = "buildUrl" /\ lastCall'.op = "buildUrl" =>
            Outcome(lastCall') = Outcome(lastCall)
      ]_vars

\* C13 witness: buildUrl has returned a URL on a builder that also holds a
\* header, a body and a transport handle.
C13_Witness ==
    /\ lastCall.op = "buildUrl"
    /\ ~lastCall.threw
    /\ Obj.apiHeader = HeaderAccept
    /\ Obj.apiBody = BodyArticle
    /\ Obj.request = "request"
    /\ Obj.apiParams = ParamsA

\* The stored parameters as name/value strings, in insertion order.
StoredPairs(obj) ==
    [i \in 1..Len(obj.apiParams) |->
        <<obj.apiParams[i].key, ToUSVString(obj.apiParams[i].value)>>]

LimitOffsetQuery ==
    <<"l","i","m","i","t","=","1","0","&","o","f","f","s","e","t","=","0">>

\* C14 as stated: the query string lists the stored entries, once each, in
\* the insertion order of the mapping; { limit: 10, offset: 0 } gives
\* limit=10&offset=0.
C14_InsertionOrder ==
    lastCall.op = "buildUrl" /\ ~lastCall.threw =>
        /\ FormParse(QueryOf(lastCall.value)) = StoredPairs(Obj)
        /\ Obj.apiParams = ParamsLimitOffset =>
              QueryOf(lastCall.value) = LimitOffsetQuery

\* Position of a pair among the stored pairs.
PositionIn(pairs, x) == CHOOSE i \in 1..Len(pairs) : pairs[i] = x

\* C14 amended: the query string lists the stored entries, once each; the
\* names that are array indices come first, in ascending numeric order,
\* and the other names follow in the insertion order of the mapping;
\* { limit: 10, offset: 0 } gives limit=10&offset=0.
C14_OwnPropertyOrder ==
    lastCall.op = "buildUrl" /\ ~lastCall.threw =>
        LET got  == FormParse(QueryOf(lastCall.value))
            want == StoredPairs(Obj)
        IN  /\ Len(got) = Len(want)
            /\ \A i \in 1..Len(want) :
                  Cardinality({j \in 1..Len(got) : got[j] = want[i]}) = 1
            /\ \A j \in 1..Len(got) : \A k \in (j + 1)..Len(got) :
                  IF IsArrayIndex(got[j][1])
                  THEN IsArrayIndex(got[k][1]) =>
                          /\ IndexLeq(got[j][1], got[k][1])
                          /\ got[j][1] # got[k][1]
                  ELSE /\ ~IsArrayIndex(got[k][1])
                       /\ PositionIn(want, got[j]) < PositionIn(want, got[k])
            /\ Obj.apiParams = ParamsLimitOffset =>
                  QueryOf(lastCall.value) = LimitOffsetQuery

\* C14 witness: with { limit: 10, offset: 0 } on path /api/articles the
\* composed query string is limit=10&offset=0.
C14_Witness ==
    /\ lastCall.op = "buildUrl"
    /\ ~lastCall.threw
    /\ Obj.apiPath = PathArticles
    /\ Obj.apiParams = ParamsLimitOffset
    /\ QueryOf(lastCall.value) = LimitOffsetQuery

Range(f) == {f[i] : i \in DOMAIN f}

\* C15: decoding the query string of the composed URL recovers exactly the
\* stored name/value pairs (values as strings), also when names and values
\* hold a space, "&", "=" or a non-ASCII character.
C15_QueryRoundTrip ==
    lastCall.op = "buildUrl" /\ ~lastCall.threw =>
        LET got == FormParse(QueryOf(lastCall.value)) IN
        /\ Range(got) = Range(StoredPairs(Obj))
        /\ Len(got) = Len(Obj.apiParams)

\* C15 witness: the pair "q q" = "x&y=é" was composed into a query string
\* that holds none of its reserved characters raw and decodes back to it.
C15_Witness ==
    /\ lastCall.op = "buildUrl"
    /\ ~lastCall.threw
    /\ Obj.apiParams = ParamsReserved
    /\ \A i \in 1..Len(QueryOf(lastCall.value)) :
          QueryOf(lastCall.value)[i] \notin {" ", "&", "é"}
    /\ FormParse(QueryOf(lastCall.value))
          = << << <<"q"," ","q">>, <<"x","&","y","=","é">> >> >>

\* The mapping with every numeric value replaced by its decimal string.
Stringified(params) ==
    [i \in 1..Len(params) |->
        Entry(params[i].key,
              IF params[i].value.isNum
              THEN StrV(NumberToString(params[i].value.n))
              ELSE params[i].value)]

\* C16: a numeric parameter value is composed as its decimal string: the
\* URL is the one composed from the same mapping with each number written
\* as a string.
C16_NumbersAsDecimalStrings ==
    lastCall.op = "buildUrl" /\ ~lastCall.threw =>
        LET twin == [Obj EXCEPT !.apiParams = Stringified(Obj.apiParams)] IN
        /\ lastCall.value = buildUrl(twin).value
        /\ \A i \in 1..Len(Obj.apiParams) :
              Obj.apiParams[i].value.isNum =>
                 \E j \in 1..Len(FormParse(QueryOf(lastCall.value))) :
                    FormParse(QueryOf(lastCall.value))[j]
                       = << Obj.apiParams[i].key,
                            NumberToString(Obj.apiParams[i].value.n) >>

\* C16 witness: the numbers 10 and 0 were composed as "10" and "0".
C16_Witness ==
    /\ lastCall.op = "buildUrl"
    /\ ~lastCall.threw
    /\ Obj.apiParams = ParamsLimitOffset
    /\ Obj.apiParams[1].value.isNum
    /\ FormParse(QueryOf(lastCall.value))
          = << << <<"l","i","m","i","t">>, <<"1","0">> >>,
               << <<"o","f","f","s","e","t">>, <<"0">> >> >>

C19_FreshIsolatedInstances ==
    [][/\ lastCall'.op = "new" =>
            /\ lastCall'.self \notin DOMAIN heap
            /\ api' = lastCall'.self
            /\ heap'[api'] = RequestHandler
            /\ \A r \in DOMAIN heap : heap'[r] = heap[r]
       /\ lastCall'.op # "new" =>
            /\ DOMAIN heap' = DOMAIN heap
            /\ \A r \in DOMAIN heap \ {lastCall'.self} : heap'[r] = heap[r]
      ]_vars

\* C19 witness: the second test has just been handed its instance, which
\* is in its initial state while the first test's instance is configured.
C19_Witness ==
    /\ lastCall.op = "new"
    /\ lastCall.self = 2
    /\ heap[1].baseUrl = DefaultOrigin
    /\ heap[1].apiPath = PathTags
    /\ heap[1].apiHeader = HeaderAuthToken
    /\ heap[2] = RequestHandler

TestBody == {"test:create", "test:created", "test:delete", "test:deleted"}

\* C20: in the hooks file the beforeAll hook has completed and assigned
\* authToken before the body of a test starts, and every request a test
\* sends carries, as Authorization, the token that hook obtained.
C20_HookBeforeTests ==
    /\ pc \in TestBody =>
          /\ issued \in Tokens
          /\ authToken = TokenPrefix \o issued
    /\ lastRequest.req \in {"create", "delete"} =>
          /\ lastRequest.hook \in Tokens
          /\ lastRequest.auth = TokenPrefix \o lastRequest.hook

\* C20 witness: the second test, run again in a new worker whose hook
\* logged in anew, has sent its delete request with that hook's token.
C20_Witness ==
    /\ pc = "test:deleted"
    /\ test = 2
    /\ retry = 1
    /\ lastRequest.req = "delete"
    /\ lastRequest.auth = TokenPrefix \o <<"j","w","t","2">>
    /\ issued = <<"j","w","t","2">>

\* C21: in the hooks file the login request is sent exactly once in a run
\* of the file, however many tests it holds, and by the hook only: never
\* more than one login has been sent, and a finished run has sent one.
C21_LoginOnce ==
    /\ logins <= 1
    /\ pc = "done" => logins = 1
    /\ pc \in {"test:created", "test:deleted"} => lastRequest.req # "login"

\* The five facets and the field that stores each.
FacetOf(obj) ==
    [url |-> obj.baseUrl, path |-> obj.apiPath, param |-> obj.apiParams,
     header |-> obj.apiHeader, body |-> obj.apiBody]

\* C22: after any sequence of url, path, param, header, body and reset
\* calls, each of the five facets equals the argument of the most recent
\* call of its setter since the most recent reset, or its value at
\* construction when there is no such call.
C22_LastCallSinceReset ==
    \A f \in DOMAIN written :
        FacetOf(Obj)[f] = IF written[f].by = "none"
                          THEN FacetOf(RequestHandler)[f]
                          ELSE written[f].arg

\* C22 witness: after a reset one caller set the path and then the other
\* did; the headers were set before the reset and not since.
C22_Witness ==
    /\ lastCall.op = "path"
    /\ lastCall.arg = PathArticles
    /\ written.path.by = "B"
    /\ written.header.by = "none"
    /\ written.url.by = "A"
    /\ Obj.apiPath = PathArticles
    /\ Obj.apiHeader = <<>>
    /\ Obj.baseUrl = DefaultOrigin

\* C23: each setter changes only its own field: after url every field but
\* the base URL is as before, and likewise for path, param, header, body
\* and withRequest.
C23_SetterFrame ==
    [][LET old == heap[api]
           new == heap'[api]
       IN  /\ lastCall'.op = "url" =>
                new = [old EXCEPT !.baseUrl = new.baseUrl]
           /\ lastCall'.op = "path" =>
                new = [old EXCEPT !.apiPath = new.apiPath]
           /\ lastCall'.op = "param" =>
                new = [old EXCEPT !.apiParams = new.apiParams]
           /\ lastCall'.op = "header" =>
                new = [old EXCEPT !.apiHeader = new.apiHeader]
           /\ lastCall'.op = "body" =>
                new = [old EXCEPT !.apiBody = new.apiBody]
           /\ lastCall'.op = "withRequest" =>
                new = [old EXCEPT !.request = new.request]
      ]_vars

\* C23 witness: url has replaced the base URL of a builder whose path,
\* parameters, headers, body and transport handle were all set, and they
\* are all still there.
C23_Witness ==
    /\ lastCall.op = "url"
    /\ Obj = [RequestHandler EXCEPT !.baseUrl = UrlExample,
                                    !.apiPath = PathTags,
                                    !.apiParams = ParamsA,
                                    !.apiHeader = HeaderAuthToken,
                                    !.apiBody = BodyArticle,
                                    !.request = "request"]

\* C24: on a builder whose transport handle is not bound, reset leaves the
\* very state of a newly constructed builder, in every field; the calls
\* that follow therefore start from the state they start from on a new
\* instance.
C24_ResetEqualsFresh ==
    [][lastCall'.op = "reset" /\ heap[api].request = "null" =>
          heap'[api] = RequestHandler
      ]_vars

\* C24 witness: reset has run on a builder without a transport handle, and
\* the builder equals a new one.
C24_Witness ==
    /\ lastCall.op = "reset"
    /\ Obj = RequestHandler
    /\ written = NoneWritten
    /\ sent = <<>>

SetterNames == <<"url", "path", "param", "header", "body", "withRequest">>

\* The argument caller c passes to the setter named op.
SetterArg(op, c) ==
    IF op = "withRequest"
    THEN (IF c = "A" THEN "request" ELSE "null")
    ELSE ArgsOf(c)[op]

\* The builder after the setter named op has run on obj with argument arg.
Apply(op, obj, arg) ==
    CASE op = "url" -> url(api, obj, arg).obj
      [] op = "path" -> path(api, obj, arg).obj
      [] op = "param" -> param(api, obj, arg).obj
      [] op = "header" -> header(api, obj, arg).obj
      [] op = "body" -> body(api, obj, arg).obj
      [] op = "withRequest" -> withRequest(api, obj, arg).obj

\* C25: setters of different fields commute: from every state, two calls
\* of setters of different fields leave the same state, and the same
\* buildUrl result, in either order.
C25_SettersCommute ==
    \A i \in 1..Len(SetterNames) : \A j \in (i + 1)..Len(SetterNames) :
      \A c \in Callers : \A d \in Callers :
        LET f  == SetterNames[i]
            g  == SetterNames[j]
            a  == SetterArg(f, c)
            b  == SetterArg(g, d)
            fg == Apply(g, Apply(f, Obj, a), b)
            gf == Apply(f, Apply(g, Obj, b), a)
        IN  /\ fg = gf
            /\ Outcome(buildUrl(fg)) = Outcome(buildUrl(gf))

\* C25 witness: the builder holds one caller's base URL and the other's
\* parameters, each set by a call, and buildUrl has returned its URL.
C25_Witness ==
    /\ lastCall.op = "buildUrl"
    /\ ~lastCall.threw
    /\ written.url.by = "B"
    /\ written.param.by = "A"
    /\ Obj.baseUrl = UrlExample
    /\ Obj.apiParams = ParamsA
    /\ Obj.apiHeader = HeaderAccept

\* C26: reset is idempotent: a reset that follows a reset leaves the state
\* the first one left.
C26_ResetIdempotent ==
    [][lastCall'.op = "reset" =>
          /\ reset(api, heap'[api]).obj = heap'[api]
          /\ lastCall.op = "reset" => heap' = heap
      ]_vars

\* C26 witness: reset has run on a builder with a bound transport handle
\* and left the other facets empty.
C26_Witness ==
    /\ lastCall.op = "reset"
    /\ lastCall.ret = api
    /\ Obj.request = "request"
    /\ Obj.baseUrl = <<>>
    /\ Obj.apiPath = <<>>
    /\ written = NoneWritten

\* The builder a caller configures when it has the instance to itself.
ConfiguredBy(c) ==
    [RequestHandler EXCEPT !.baseUrl = ArgsOf(c).url,
                           !.apiPath = ArgsOf(c).path,
                           !.apiParams = ArgsOf(c).param,
                           !.apiHeader = ArgsOf(c).header,
                           !.apiBody = ArgsOf(c).body]

\* C27: when callers interleave their setter calls on one shared builder,
\* every facet holds, whole, the argument one caller passed (the caller
\* that set it last), or its value at construction: never a mix of two
\* arguments. That facets of different callers meet in one state, and
\* buildUrl then returns a URL no caller configured, is the witness.
C27_WholeValues ==
    \A f \in DOMAIN written :
        /\ FacetOf(Obj)[f] \in
              {FacetOf(RequestHandler)[f]} \cup {ArgsOf(c)[f] : c \in Callers}
        /\ \A c \in Callers :
              written[f].by = c => FacetOf(Obj)[f] = ArgsOf(c)[f]

\* C27 witness: the base URL comes from one caller and the parameters from
\* the other, and buildUrl has returned a URL that is neither caller's.
C27_Witness ==
    /\ lastCall.op = "buildUrl"
    /\ ~lastCall.threw
    /\ written.url.by = "A"
    /\ written.param.by = "B"
    /\ Obj.baseUrl = ArgsOf("A").url
    /\ Obj.apiParams = ArgsOf("B").param
    /\ \A c \in Callers : lastCall.value # buildUrl(ConfiguredBy(c)).value

\* The requests of the running test that create, update or delete.
Writes(reqs) ==
    SelectSeq(reqs, LAMBDA q : q.req \in {"create", "update", "delete"})

WriteOrder(file) ==
    IF file = "PUt Update Articles"
    THEN <<"create", "update", "delete">>
    ELSE <<"create", "delete">>

\* C28: in every article test the requests go out in the order create,
\* update (in the update test), delete; a delete request is sent only once
\* every response before it has passed its status and title checks; and it
\* names the slug that the most recent create or update response returned.
C28_RequestOrder ==
    LET w == Writes(run.requests) IN
    /\ run.file \in Files =>
          /\ Len(w) <= Len(WriteOrder(run.file))
          /\ \A i \in 1..Len(w) : w[i].req = WriteOrder(run.file)[i]
    /\ \A i \in 1..Len(run.requests) :
          run.requests[i].req = "delete" =>
             /\ run.failedAt \in {"none", "expect:204"}
             /\ \A j \in 1..(i - 1) :
                   /\ run.requests[j].req \in {"create", "update"} =>
                         run.requests[j].ok /\ run.requests[j].title
                   /\ run.requests[j].req = "list" => run.requests[j].title
    /\ \A i \in 1..Len(w) :
          w[i].req = "delete" =>
             /\ i > 1
             /\ w[i].target = w[i - 1].got

\* C28 witness: the update test has sent its delete request, for the slug
\* the update returned, which is not the slug the creation returned.
C28_Witness ==
    /\ run.file = "PUt Update Articles"
    /\ run.pc = "expect:204"
    /\ Len(run.requests) = 4
    /\ run.requests[2].req = "create"
    /\ run.requests[3].req = "update"
    /\ run.requests[4].req = "delete"
    /\ run.requests[3].got # run.requests[2].got
    /\ run.requests[4].target = run.requests[3].got

\* The checks that stand between the create request and the delete request.
ChecksBeforeDelete ==
    {"expect:201", "expect:title", "expect:200", "expect:updatedTitle",
     "expect:listed"}

\* C29: when a check between the create request and the delete request
\* fails, the test ends there, it sends no delete request, and the article
\* it created (if the service stored one) is still on the service.
C29_FailedCheckLeavesArticle ==
    run.failedAt \in ChecksBeforeDelete =>
        /\ run.pc = "failed"
        /\ \A i \in 1..Len(run.requests) : run.requests[i].req # "delete"
        /\ run.mine # <<>> => run.mine \in articles

\* C29 witness: the update test has ended at the title check on the
\* update response: no delete request was sent and the article it created
\* is on the service under the slug the update gave it.
C29_Witness ==
    /\ run.file = "PUt Update Articles"
    /\ run.pc = "failed"
    /\ run.failedAt = "expect:updatedTitle"
    /\ Len(run.requests) = 3
    /\ run.requests[3].req = "update"
    /\ run.mine = run.requests[3].got
    /\ run.mine # run.slug
    /\ run.mine \in articles

====
